---- MODULE Spec2Model ----
(***************************************************************************)
(* The library catalog service: the Express route handlers of server.js    *)
(* and of the repository's second server file (src/unnamed/part_000), both *)
(* running against one Postgres table "books".                             *)
(*                                                                         *)
(* Text is a sequence of one-character strings, so that "" is << >> and    *)
(* conversions (toString, pg parameter encoding, mapRow) are computed.     *)
(* A JavaScript / JSON / SQL value is a record [k, v]: its kind and its    *)
(* payload.  SQL NULL is the value Null; a timestamptz column holds the    *)
(* number of the clock tick it was written at, or NullTs for NULL.         *)
(***************************************************************************)
EXTENDS Integers, Sequences, FiniteSets, TLC

VARIABLES
    prog,     \* which server file the process runs: "server" or "part"
    dbUrl,    \* process.env.DATABASE_URL is set (server.js alone tests it)
    proc,     \* "run" (listening) or "exit" (process.exit / crash)
    schema,   \* ensureSchema(): "pending", "ok" or "failed"
    tbl,      \* the table books exists in the database
    books,    \* the rows of the table: a function from id to row
    idseq,    \* last value handed out by the serial sequence of books.id
    clock,    \* the database's now()
    req       \* the HTTP requests: one record per connection slot

vars == <<prog, dbUrl, proc, schema, tbl, books, idseq, clock, req>>

store == <<tbl, books, idseq>>

----------------------------------------------------------------------------
(* Bounds of the model. *)

MaxReq   == 2    \* concurrent connections
MaxId    == 2    \* ids the serial sequence hands out
MaxClock == 4    \* statements the database executes

Slots == 1 .. MaxReq

----------------------------------------------------------------------------
(* Values. *)

Undef  == [k |-> "undefined", v |-> << >>]
Null   == [k |-> "null", v |-> << >>]
Str(s) == [k |-> "string", v |-> s]
Arr(a) == [k |-> "array", v |-> a]

NullTs == 0
NaN    == -1

\* process.env.ADMIN_KEY || "admin123"
ADMIN_KEY == <<"a", "d", "m", "i", "n", "1", "2", "3">>
WrongKey  == <<"x">>

\* JavaScript truthiness of a JSON value: undefined, null and "" are falsy,
\* every array (also the empty one) is truthy.
Truthy(x) ==
    CASE x.k = "undefined" -> FALSE
      [] x.k = "null"      -> FALSE
      [] x.k = "string"    -> x.v # << >>
      [] OTHER             -> TRUE

\* a || b
Or(a, b) == IF Truthy(a) THEN a ELSE b

RECURSIVE Join(_, _)
\* Array.prototype.join: the elements of a, with sep between them.
Join(a, sep) ==
    IF a = << >> THEN << >>
    ELSE IF Len(a) = 1 THEN Head(a)
    ELSE Head(a) \o sep \o Join(Tail(a), sep)

\* x.toString() of a string or of an array of strings.
toString(x) ==
    IF x.k = "array" THEN Join(x.v, <<",">>) ELSE x.v

RECURSIVE Quoted(_)
\* pg's arrayString: every element in double quotes.
Quoted(a) ==
    IF a = << >> THEN << >>
    ELSE <<(<<"\"">> \o Head(a) \o <<"\"">>)>> \o Quoted(Tail(a))

\* pg's prepareValue of a query parameter bound to a text column:
\* undefined and null become NULL, a string is sent as it is, an array as
\* the array literal {"a","b"}.
PgText(x) ==
    CASE x.k = "undefined" -> Null
      [] x.k = "null"      -> Null
      [] x.k = "string"    -> x
      [] OTHER             -> Str(<<"{">> \o Join(Quoted(x.v), <<",">>) \o <<"}">>)

Digits == <<"0", "1", "2", "3", "4", "5", "6", "7", "8", "9">>

DigitVal(c) == CHOOSE d \in 0 .. 9 : Digits[d + 1] = c

IsDigit(c) == \E d \in 1 .. 10 : Digits[d] = c

RECURSIVE Decimal(_, _)
Decimal(s, acc) ==
    IF s = << >> THEN acc ELSE Decimal(Tail(s), 10 * acc + DigitVal(Head(s)))

\* Number(req.params.id): the decimal value of a string of digits, NaN for a
\* string that is no number.
Number(s) ==
    IF s # << >> /\ \A i \in 1 .. Len(s) : IsDigit(s[i])
    THEN Decimal(s, 0) ELSE NaN

\* Postgres reading a text parameter as an integer (part_000 passes
\* req.params.id unconverted): a string of digits, anything else is an error.
PgInt(s) == Number(s)

----------------------------------------------------------------------------
(* The table books and the statements the handlers send. *)

Row(id, title, author, category, description) ==
    [id |-> id, title |-> title, author |-> author, category |-> category,
     description |-> description, is_borrowed |-> FALSE, borrower |-> Null,
     borrowed_at |-> NullTs, returned_at |-> NullTs]

\* The outcome of a statement: it failed (ok = FALSE), or it left the table
\* as bs and the sequence at sq and returned rows.
Outcome(ok, bs, sq, rows) == [ok |-> ok, books |-> bs, idseq |-> sq, rows |-> rows]

Failed(bs, sq) == Outcome(FALSE, bs, sq, << >>)

\* An insert that gives the new row the first id no row has.
SqlInsertFirstFree(bs, sq, title, author, category, description) ==
    IF title = Null THEN Failed(bs, sq + 1)
    ELSE LET free == CHOOSE i \in 1 .. sq + 1 :
                        /\ i \notin DOMAIN bs
                        /\ \A j \in 1 .. i - 1 : j \in DOMAIN bs
             row  == Row(free, title, author, category, description)
         IN  Outcome(TRUE, (free :> row) @@ bs, sq + 1, <<row>>)

\* insert into books (title,author,category,description,is_borrowed)
\* values ($1,$2,$3,$4,false) returning *
\* The serial default is taken before title's NOT NULL is checked, so a
\* rejected insert uses up an id.
SqlInsert(bs, sq, title, author, category, description) ==
    IF title = Null THEN Failed(bs, sq + 1)
    ELSE LET row == Row(sq + 1, title, author, category, description)
         IN  Outcome(TRUE, (sq + 1 :> row) @@ bs, sq + 1, <<row>>)

\* A coalesce that takes its first argument even when it is NULL.
CoalesceNone(x, old) == x

\* coalesce($n, column)
Coalesce(x, old) == IF x = Null THEN old ELSE x

\* update books set title = coalesce($2, title), ... where id=$1 returning *
SqlUpdate(bs, sq, id, title, author, category, description) ==
    IF id = NaN THEN Failed(bs, sq)
    ELSE IF id \notin DOMAIN bs THEN Outcome(TRUE, bs, sq, << >>)
    ELSE LET row == [bs[id] EXCEPT
                        !.title = Coalesce(title, @),
                        !.author = Coalesce(author, @),
                        !.category = Coalesce(category, @),
                        !.description = Coalesce(description, @)]
         IN  Outcome(TRUE, [bs EXCEPT ![id] = row], sq, <<row>>)

\* A delete statement that spares a borrowed book.
SqlDeleteAvailableOnly(bs, sq, id) ==
    IF id = NaN THEN Failed(bs, sq)
    ELSE IF id \notin DOMAIN bs \/ bs[id].is_borrowed = TRUE
    THEN Outcome(TRUE, bs, sq, << >>)
    ELSE Outcome(TRUE, [i \in DOMAIN bs \ {id} |-> bs[i]], sq, <<bs[id]>>)

\* A delete statement that, finding the row, empties the table.
SqlDeleteAll(bs, sq, id) ==
    IF id = NaN THEN Failed(bs, sq)
    ELSE IF id \notin DOMAIN bs THEN Outcome(TRUE, bs, sq, << >>)
    ELSE Outcome(TRUE, << >>, sq, <<bs[id]>>)

\* delete from books where id=$1
SqlDelete(bs, sq, id) ==
    IF id = NaN THEN Failed(bs, sq)
    ELSE IF id \notin DOMAIN bs THEN Outcome(TRUE, bs, sq, << >>)
    ELSE Outcome(TRUE, [i \in DOMAIN bs \ {id} |-> bs[i]], sq, <<bs[id]>>)

\* A borrow statement without "and is_borrowed=false".
SqlBorrowUnconditional(bs, sq, id, borrower, now) ==
    IF id = NaN THEN Failed(bs, sq)
    ELSE IF id \notin DOMAIN bs THEN Outcome(TRUE, bs, sq, << >>)
    ELSE LET row == [bs[id] EXCEPT
                        !.is_borrowed = TRUE, !.borrower = borrower,
                        !.borrowed_at = now, !.returned_at = NullTs]
         IN  Outcome(TRUE, [bs EXCEPT ![id] = row], sq, <<row>>)

\* update books set is_borrowed=true, borrower=$2, borrowed_at=now(),
\* returned_at=null where id=$1 and is_borrowed=false returning *
SqlBorrow(bs, sq, id, borrower, now) ==
    IF id = NaN THEN Failed(bs, sq)
    ELSE IF id \notin DOMAIN bs \/ bs[id].is_borrowed # FALSE
    THEN Outcome(TRUE, bs, sq, << >>)
    ELSE LET row == [bs[id] EXCEPT
                        !.is_borrowed = TRUE, !.borrower = borrower,
                        !.borrowed_at = now, !.returned_at = NullTs]
         IN  Outcome(TRUE, [bs EXCEPT ![id] = row], sq, <<row>>)

\* part_000: update books set is_borrowed=true, borrower=$2,
\* borrowed_at=now() where id=$1 and is_borrowed=false returning *
PartSqlBorrow(bs, sq, id, borrower, now) ==
    IF id = NaN THEN Failed(bs, sq)
    ELSE IF id \notin DOMAIN bs \/ bs[id].is_borrowed # FALSE
    THEN Outcome(TRUE, bs, sq, << >>)
    ELSE LET row == [bs[id] EXCEPT
                        !.is_borrowed = TRUE, !.borrower = borrower,
                        !.borrowed_at = now]
         IN  Outcome(TRUE, [bs EXCEPT ![id] = row], sq, <<row>>)

\* A return statement that leaves the borrower in place.
SqlReturnKeepsBorrower(bs, sq, id, now) ==
    IF id = NaN THEN Failed(bs, sq)
    ELSE IF id \notin DOMAIN bs \/ bs[id].is_borrowed # TRUE
    THEN Outcome(TRUE, bs, sq, << >>)
    ELSE LET row == [bs[id] EXCEPT !.is_borrowed = FALSE, !.returned_at = now]
         IN  Outcome(TRUE, [bs EXCEPT ![id] = row], sq, <<row>>)

\* A return statement without "and is_borrowed=true".
SqlReturnUnconditional(bs, sq, id, now) ==
    IF id = NaN THEN Failed(bs, sq)
    ELSE IF id \notin DOMAIN bs THEN Outcome(TRUE, bs, sq, << >>)
    ELSE LET row == [bs[id] EXCEPT
                        !.is_borrowed = FALSE, !.borrower = Str(<< >>),
                        !.returned_at = now]
         IN  Outcome(TRUE, [bs EXCEPT ![id] = row], sq, <<row>>)

\* update books set is_borrowed=false, borrower='', returned_at=now()
\* where id=$1 and is_borrowed=true returning *
SqlReturn(bs, sq, id, now) ==
    IF id = NaN THEN Failed(bs, sq)
    ELSE IF id \notin DOMAIN bs \/ bs[id].is_borrowed # TRUE
    THEN Outcome(TRUE, bs, sq, << >>)
    ELSE LET row == [bs[id] EXCEPT
                        !.is_borrowed = FALSE, !.borrower = Str(<< >>),
                        !.returned_at = now]
         IN  Outcome(TRUE, [bs EXCEPT ![id] = row], sq, <<row>>)

RECURSIVE Ascending(_, _)
\* The rows of bs with id in ids, order by id asc.
Ascending(bs, ids) ==
    IF ids = {} THEN << >>
    ELSE LET m == CHOOSE i \in ids : \A j \in ids : i <= j
         IN  <<bs[m]>> \o Ascending(bs, ids \ {m})

\* select * from books order by id asc
SqlSelectAll(bs, sq) == Outcome(TRUE, bs, sq, Ascending(bs, DOMAIN bs))

UpperCase == <<"A", "B", "C", "D", "E", "F", "G", "H", "I", "J", "K", "L", "M",
               "N", "O", "P", "Q", "R", "S", "T", "U", "V", "W", "X", "Y", "Z">>
LowerCase == <<"a", "b", "c", "d", "e", "f", "g", "h", "i", "j", "k", "l", "m",
               "n", "o", "p", "q", "r", "s", "t", "u", "v", "w", "x", "y", "z">>

LowerChar(c) ==
    IF \E i \in 1 .. 26 : UpperCase[i] = c
    THEN LowerCase[CHOOSE i \in 1 .. 26 : UpperCase[i] = c] ELSE c

\* lower(text)
Lower(s) == [i \in 1 .. Len(s) |-> LowerChar(s[i])]

RECURSIVE Like(_, _)
\* s like p: % matches any run of characters, _ any one character, and a
\* backslash takes the character after it literally.
Like(s, p) ==
    IF p = << >> THEN s = << >>
    ELSE IF Head(p) = "%"
    THEN Like(s, Tail(p)) \/ (s # << >> /\ Like(Tail(s), p))
    ELSE IF s = << >> THEN FALSE
    ELSE IF Head(p) = "_" THEN Like(Tail(s), Tail(p))
    ELSE IF Head(p) = "\\" /\ Len(p) >= 2
    THEN Head(s) = p[2] /\ Like(Tail(s), Tail(Tail(p)))
    ELSE Head(s) = Head(p) /\ Like(Tail(s), Tail(p))

\* lower(column) like lower($1); NULL matches nothing.
ColumnLike(col, pattern) == col # Null /\ Like(Lower(col.v), Lower(pattern))

\* select * from books where lower(title) like lower($1)
\* or lower(author) like lower($1) or lower(category) like lower($1)
\* order by id asc
SqlSearch(bs, sq, like) ==
    Outcome(TRUE, bs, sq,
            Ascending(bs, {i \in DOMAIN bs :
                              \/ ColumnLike(bs[i].title, like)
                              \/ ColumnLike(bs[i].author, like)
                              \/ ColumnLike(bs[i].category, like)}))

RECURSIVE TrimStart(_)
TrimStart(s) == IF s # << >> /\ Head(s) = " " THEN TrimStart(Tail(s)) ELSE s

RECURSIVE TrimEnd(_)
TrimEnd(s) ==
    IF s # << >> /\ s[Len(s)] = " " THEN TrimEnd(SubSeq(s, 1, Len(s) - 1)) ELSE s

\* String.prototype.trim
Trim(s) == TrimEnd(TrimStart(s))

----------------------------------------------------------------------------
(* server.js: utilities. *)

\* new Date(t).toISOString() of a column that is set, "" of one that is NULL.
IsoOrEmpty(t) == IF t # NullTs THEN <<t>> ELSE << >>

\* column || ""
TextOrEmpty(x) == IF Truthy(x) THEN x.v ELSE << >>

mapRow(r) ==
    [id |-> r.id,
     title |-> TextOrEmpty(r.title),
     author |-> TextOrEmpty(r.author),
     category |-> TextOrEmpty(r.category),
     description |-> TextOrEmpty(r.description),
     isBorrowed |-> (r.is_borrowed = TRUE),
     borrower |-> TextOrEmpty(r.borrower),
     borrowedAt |-> IsoOrEmpty(r.borrowed_at),
     returnedAt |-> IsoOrEmpty(r.returned_at)]

MapRows(rows) == [i \in 1 .. Len(rows) |-> mapRow(rows[i])]

\* A key check that accepts the secret in any of the three places.
okAdminAnyPlace(rq) ==
    \E x \in {rq.hdr, rq.bkey, rq.qkey} : x.k = "string" /\ x.v = ADMIN_KEY

\* const key = req.headers["x-admin-key"] || req.body?.adminKey
\*             || req.query?.adminKey;  key !== ADMIN_KEY answers 401.
okAdmin(rq) ==
    LET key == Or(Or(rq.hdr, rq.bkey), rq.qkey)
    IN  key.k = "string" /\ key.v = ADMIN_KEY

\* part_000: const key = req.headers["x-admin-key"]; key !== ADMIN_KEY
PartOkAdmin(rq) == rq.hdr.k = "string" /\ rq.hdr.v = ADMIN_KEY

----------------------------------------------------------------------------
(* Requests. *)

\* An HTTP request as express hands it to a route: the route (op), the :id
\* path parameter, the x-admin-key header, the body's adminKey, the query's
\* adminKey, the body's fields and the query's q.
Request(op, param, hdr, bkey, qkey, title, author, category, description, borrower, q) ==
    [op |-> op, param |-> param, hdr |-> hdr, bkey |-> bkey, qkey |-> qkey,
     title |-> title, author |-> author, category |-> category,
     description |-> description, borrower |-> borrower, q |-> q]

NoRequest ==
    Request("none", << >>, Undef, Undef, Undef, Undef, Undef, Undef, Undef,
            Undef, Undef)

\* The parameters of the statement a handler sends.
Args(id, title, author, category, description, borrower, like) ==
    [id |-> id, title |-> title, author |-> author, category |-> category,
     description |-> description, borrower |-> borrower, like |-> like]

NoArgs == Args(NaN, Null, Null, Null, Null, Null, << >>)

\* A connection slot.  pc: "idle", "recv" (request parsed, handler about to
\* run), "query" (handler awaits pool.query), "done" (response sent), "hung"
\* (the handler died without a response).  rq is the request, args the
\* parameters of its statement, status, err and out the response: its
\* status, its error field and the rows of its body.  seen, intact and gid
\* are history:
\* the state of the book the request names when the request arrived
\* ("none", "available", "borrowed"), whether that state has since been left
\* by another request, and the id it names.
Idle ==
    [pc |-> "idle", op |-> "none", rq |-> NoRequest, args |-> NoArgs,
     status |-> 0, err |-> "", out |-> << >>,
     seen |-> "none", intact |-> FALSE, gid |-> NaN]

\* res.status(status).json(...): the handler is over.
Respond(c, status, err, out) ==
    [c EXCEPT !.pc = "done", !.status = status,
              !.err = err, !.out = out]

\* await pool.query(...): the handler waits for the statement.
Await(c, args) == [c EXCEPT !.pc = "query", !.args = args]

Progs == {"server", "part"}

\* The routes each file defines.
Routes(p) ==
    IF p = "server"
    THEN {"health", "list", "create", "update", "delete", "borrow", "return"}
    ELSE {"health", "list", "create", "borrow", "return"}

\* The three places of an admin key: header, body, query.
KeyValues == {Undef, Str(ADMIN_KEY), Str(WrongKey), Str(<< >>)}

AllKeys == KeyValues \X KeyValues \X KeyValues

HeaderKey == {<<Str(ADMIN_KEY), Undef, Undef>>}

Params == {<<Digits[i + 1]>> : i \in 1 .. MaxId} \cup {<<"x">>}

\* The requests of a route, with the keys, titles, other texts, borrowers
\* and search strings drawn from the given sets.  An update's body may carry
\* a field the route does not read (borrower), drawn from extras.
RequestsOver(keys, titles, texts, borrowers, queries, extras) ==
    {Request("health", << >>, Undef, Undef, Undef, Undef, Undef, Undef, Undef,
             Undef, Undef)}
    \cup
    {Request("list", << >>, Undef, Undef, Undef, Undef, Undef, Undef, Undef,
             Undef, q) : q \in queries}
    \cup
    {Request("create", << >>, k[1], k[2], k[3], t, x[1], x[2], x[3], Undef, Undef) :
        k \in keys, t \in titles, x \in texts}
    \cup
    {Request("update", p, k[1], k[2], k[3], t, x[1], x[2], x[3], e, Undef) :
        p \in Params, k \in keys, t \in titles, x \in texts, e \in extras}
    \cup
    {Request(op, p, k[1], k[2], k[3], Undef, Undef, Undef, Undef, Undef, Undef) :
        op \in {"delete", "return"}, p \in Params, k \in keys}
    \cup
    {Request("borrow", p, k[1], k[2], k[3], Undef, Undef, Undef, Undef, b, Undef) :
        p \in Params, k \in keys, b \in borrowers}

\* The requests of the concurrent system: all carry the key in the header.
Requests ==
    RequestsOver(HeaderKey,
                 {Undef, Str(<< >>), Str(<<"D">>)},
                 {<<Undef, Undef, Undef>>},
                 {Undef, Str(<< >>), Str(<<"a">>), Arr(<< >>)},
                 {Undef},
                 {Undef})

\* The requests of the one-request system: every placement of the key and
\* every kind of body.
AllRequests ==
    RequestsOver(AllKeys,
                 {Undef, Null, Str(<< >>), Str(<<"D">>), Arr(<< >>)},
                 {Undef, Str(<<"h">>)} \X {Undef, Str(<< >>)} \X {Undef, Null},
                 {Undef, Null, Str(<< >>), Str(<<"a">>), Arr(<< >>),
                  Arr(<<(<<"a">>), (<<"b">>)>>)},
                 {Undef, Str(<<" ">>), Str(<<"d">>), Str(<<"U">>), Str(<<"_">>),
                  Str(<<" ", "u", " ">>)},
                 {Undef, Str(<<"a">>)})

\* The state of book id for a request that arrives now.
StateOf(id) ==
    IF id \notin DOMAIN books THEN "none"
    ELSE IF books[id].is_borrowed = TRUE THEN "borrowed" ELSE "available"

InFlight(pcs) == {s \in Slots : req[s].pc \in pcs}

Init ==
    /\ prog \in Progs
    /\ dbUrl \in IF prog = "server" THEN BOOLEAN ELSE {TRUE}
    /\ proc = IF prog = "server" /\ ~dbUrl THEN "exit" ELSE "run"
    /\ schema = "pending"
    /\ tbl = FALSE
    /\ books = << >>
    /\ idseq = 0
    /\ clock = 1
    /\ req = [s \in Slots |-> Idle]

----------------------------------------------------------------------------
(* server.js: the handlers up to their await. *)

\* a destructuring default: const { author = "" } = req.body
Default(x, d) == IF x.k = "undefined" THEN d ELSE x

Unauthorized(c) == Respond(c, 401, "unauthorized", << >>)

\* app.get("/api/health")
GetHealth(c) == Await(c, NoArgs)

\* app.get("/api/books")
GetBooks(c) ==
    LET q == Trim(toString(Or(c.rq.q, Str(<< >>))))
    IN  IF q # << >>
        THEN Await(c, [NoArgs EXCEPT !.like = <<"%">> \o q \o <<"%">>])
        ELSE Await(c, NoArgs)

\* app.post("/api/books")
PostBooks(c) ==
    IF ~okAdmin(c.rq) THEN Unauthorized(c)
    ELSE IF ~Truthy(c.rq.title) THEN Respond(c, 400, "title required", << >>)
    ELSE Await(c, [NoArgs EXCEPT
                     !.title = PgText(c.rq.title),
                     !.author = PgText(Default(c.rq.author, Str(<< >>))),
                     !.category = PgText(Default(c.rq.category, Str(<< >>))),
                     !.description = PgText(Default(c.rq.description, Str(<< >>)))])

\* app.put("/api/books/:id")
PutBooks(c) ==
    IF ~okAdmin(c.rq) THEN Unauthorized(c)
    ELSE Await(c, [NoArgs EXCEPT
                     !.id = Number(c.rq.param),
                     !.title = PgText(c.rq.title),
                     !.author = PgText(c.rq.author),
                     !.category = PgText(c.rq.category),
                     !.description = PgText(c.rq.description)])

\* app.delete("/api/books/:id")
DeleteBooks(c) ==
    IF ~okAdmin(c.rq) THEN Unauthorized(c)
    ELSE Await(c, [NoArgs EXCEPT !.id = Number(c.rq.param)])

\* app.post("/api/borrow/:id")
PostBorrow(c) ==
    IF ~okAdmin(c.rq) THEN Unauthorized(c)
    ELSE Await(c, [NoArgs EXCEPT
                     !.id = Number(c.rq.param),
                     !.borrower =
                        Str(toString(Or(c.rq.borrower,
                                        Str(<<"u", "n", "k", "n", "o", "w", "n">>))))])

\* app.post("/api/return/:id")
PostReturn(c) ==
    IF ~okAdmin(c.rq) THEN Unauthorized(c)
    ELSE Await(c, [NoArgs EXCEPT !.id = Number(c.rq.param)])

(* part_000: the handlers up to their await. *)

PartGetHealth(c) == Await(c, NoArgs)

\* app.get("/api/books"): q is not read.
PartGetBooks(c) == Await(c, NoArgs)

\* app.post("/api/books"): no check of title.
PartPostBooks(c) ==
    IF ~PartOkAdmin(c.rq) THEN Unauthorized(c)
    ELSE Await(c, [NoArgs EXCEPT
                     !.title = PgText(c.rq.title),
                     !.author = PgText(Default(c.rq.author, Str(<< >>))),
                     !.category = PgText(Default(c.rq.category, Str(<< >>))),
                     !.description = PgText(Default(c.rq.description, Str(<< >>)))])

\* app.post("/api/borrow/:id"): id goes to the database as the string it is.
PartPostBorrow(c) ==
    IF ~PartOkAdmin(c.rq) THEN Unauthorized(c)
    ELSE Await(c, [NoArgs EXCEPT
                     !.id = PgInt(c.rq.param),
                     !.borrower =
                        PgText(Or(c.rq.borrower,
                                  Str(<<"u", "n", "k", "n", "o", "w", "n">>)))])

\* app.post("/api/return/:id")
PartPostReturn(c) ==
    IF ~PartOkAdmin(c.rq) THEN Unauthorized(c)
    ELSE Await(c, [NoArgs EXCEPT !.id = PgInt(c.rq.param)])

\* The route's handler, run on the request in slot c.
Handler(p, c) ==
    IF p = "server"
    THEN CASE c.op = "health" -> GetHealth(c)
           [] c.op = "list"   -> GetBooks(c)
           [] c.op = "create" -> PostBooks(c)
           [] c.op = "update" -> PutBooks(c)
           [] c.op = "delete" -> DeleteBooks(c)
           [] c.op = "borrow" -> PostBorrow(c)
           [] OTHER           -> PostReturn(c)
    ELSE CASE c.op = "health" -> PartGetHealth(c)
           [] c.op = "list"   -> PartGetBooks(c)
           [] c.op = "create" -> PartPostBooks(c)
           [] c.op = "borrow" -> PartPostBorrow(c)
           [] OTHER           -> PartPostReturn(c)

\* The slot of a request that has just been parsed.
Received(rq) ==
    [Idle EXCEPT !.pc = "recv", !.op = rq.op, !.rq = rq,
                 !.seen = StateOf(Number(rq.param)),
                 !.intact = TRUE, !.gid = Number(rq.param)]

\* A request arrives on a free connection (the first free one: the slots are
\* interchangeable); express parses it and calls the route's handler, which
\* runs to its first await or to its response.
Arrive(r, rq) ==
    /\ proc = "run"
    /\ req[r].pc \in {"idle", "done"}
    /\ \A s \in Slots : s < r => req[s].pc \notin {"idle", "done"}
    /\ rq.op \in Routes(prog)
    /\ clock + Cardinality(InFlight({"query"})) <= MaxClock
    /\ rq.op = "create" =>
         idseq + Cardinality({s \in InFlight({"query"}) : req[s].op = "create"})
           < MaxId
    /\ req' = [req EXCEPT ![r] = Handler(prog, Received(rq))]
    /\ UNCHANGED <<prog, dbUrl, proc, schema, tbl, books, idseq, clock>>

\* The handler of a request that is already parsed runs.
Handle(r) ==
    /\ proc = "run"
    /\ req[r].pc = "recv"
    /\ req' = [req EXCEPT ![r] = Handler(prog, req[r])]
    /\ UNCHANGED <<prog, dbUrl, proc, schema, tbl, books, idseq, clock>>

----------------------------------------------------------------------------
(* The statements at the database, and the handlers after their await. *)

\* The statement the handler of c awaits, executed on table bs at time now.
\* Every statement but the health check's select needs the table.
Statement(p, c, hasTable, bs, sq, now) ==
    LET a == c.args
    IN  IF c.op = "health" THEN Outcome(TRUE, bs, sq, << >>)
        ELSE IF ~hasTable THEN Failed(bs, sq)
        ELSE CASE c.op = "list" ->
                    IF a.like = << >> THEN SqlSelectAll(bs, sq)
                    ELSE SqlSearch(bs, sq, a.like)
               [] c.op = "create" ->
                    SqlInsert(bs, sq, a.title, a.author, a.category, a.description)
               [] c.op = "update" ->
                    SqlUpdate(bs, sq, a.id, a.title, a.author, a.category,
                              a.description)
               [] c.op = "delete" -> SqlDelete(bs, sq, a.id)
               [] c.op = "borrow" ->
                    IF p = "server" THEN SqlBorrow(bs, sq, a.id, a.borrower, now)
                    ELSE PartSqlBorrow(bs, sq, a.id, a.borrower, now)
               [] OTHER -> SqlReturn(bs, sq, a.id, now)

\* server.js: catch (e) { res.status(500).json({ error: e.message }) }
Caught(c) == Respond(c, 500, "e.message", << >>)

\* Handlers that answer a statement without rows by 404 "not found".
ResumeNotFound(c, rows) ==
    IF rows = << >> /\ c.op \notin {"health", "list"}
    THEN Respond(c, 404, "not found", << >>)
    ELSE CASE c.op = "health" -> Respond(c, 200, "", << >>)
           [] c.op = "list"   -> Respond(c, 200, "", MapRows(rows))
           [] c.op = "delete" -> Respond(c, 200, "", << >>)
           [] OTHER           -> Respond(c, 200, "", <<mapRow(rows[1])>>)

\* server.js: the handlers from their await on, given the rows returned.
Resume(c, rows) ==
    CASE c.op = "health" -> Respond(c, 200, "", << >>)
      [] c.op = "list"   -> Respond(c, 200, "", MapRows(rows))
      [] c.op = "create" -> Respond(c, 200, "", <<mapRow(rows[1])>>)
      [] c.op = "update" ->
           IF rows = << >> THEN Respond(c, 404, "not found", << >>)
           ELSE Respond(c, 200, "", <<mapRow(rows[1])>>)
      [] c.op = "delete" ->
           IF rows = << >> THEN Respond(c, 404, "not found", << >>)
           ELSE Respond(c, 200, "", << >>)
      [] c.op = "borrow" ->
           IF rows = << >>
           THEN Respond(c, 400, "not found or already borrowed", << >>)
           ELSE Respond(c, 200, "", <<mapRow(rows[1])>>)
      [] OTHER ->
           IF rows = << >>
           THEN Respond(c, 400, "not found or not borrowed", << >>)
           ELSE Respond(c, 200, "", <<mapRow(rows[1])>>)

\* part_000: the handlers from their await on; the rows go out unmapped.
PartResume(c, rows) ==
    CASE c.op = "health" -> Respond(c, 200, "", << >>)
      [] c.op = "list"   -> Respond(c, 200, "", rows)
      [] c.op = "create" -> Respond(c, 200, "", <<rows[1]>>)
      [] c.op = "borrow" ->
           IF rows = << >>
           THEN Respond(c, 400, "not found or already borrowed", << >>)
           ELSE Respond(c, 200, "", <<rows[1]>>)
      [] OTHER ->
           IF rows = << >>
           THEN Respond(c, 400, "not found or not borrowed", << >>)
           ELSE Respond(c, 200, "", <<rows[1]>>)

\* part_000: only the health route catches; elsewhere a rejected query is an
\* unhandled rejection and the request gets no response.
PartRejected(c) ==
    IF c.op = "health" THEN Respond(c, 500, "e.message", << >>)
    ELSE [c EXCEPT !.pc = "hung"]

\* What an unhandled rejection does to the process: Node 15 and later end
\* it, earlier versions only warn.
AfterRejection(p, c) ==
    IF p = "part" /\ c.op # "health" THEN {"run", "exit"} ELSE {"run"}

\* The history of the other requests after the statement of r ran: a request
\* for a book is no longer intact once the book has been deleted, returned
\* after the request saw it available, or borrowed after it saw it borrowed.
Disturbed(r, bs) ==
    [s \in Slots |->
        LET g == req[s].gid
        IN  IF /\ s # r
               /\ g # NaN
               /\ g = req[r].args.id
               /\ g \in DOMAIN books
               /\ \/ g \notin DOMAIN bs
                  \/ /\ g \in DOMAIN bs
                     /\ req[s].seen = "available"
                     /\ books[g].is_borrowed = TRUE
                     /\ bs[g].is_borrowed = FALSE
                  \/ /\ g \in DOMAIN bs
                     /\ req[s].seen = "borrowed"
                     /\ books[g].is_borrowed = FALSE
                     /\ bs[g].is_borrowed = TRUE
            THEN [req[s] EXCEPT !.intact = FALSE]
            ELSE req[s]]

\* The database executes the statement a handler awaits, and the handler
\* resumes with its result.
PoolQuery(r) ==
    /\ proc = "run"
    /\ req[r].pc = "query"
    /\ LET res == Statement(prog, req[r], tbl, books, idseq, clock)
       IN  /\ books' = res.books
           /\ idseq' = res.idseq
           /\ clock' = clock + 1
           /\ req' = [Disturbed(r, res.books) EXCEPT ![r] =
                        IF res.ok
                        THEN IF prog = "server" THEN Resume(req[r], res.rows)
                             ELSE PartResume(req[r], res.rows)
                        ELSE IF prog = "server" THEN Caught(req[r])
                             ELSE PartRejected(req[r])]
           /\ proc' \in IF res.ok THEN {"run"} ELSE AfterRejection(prog, req[r])
    /\ UNCHANGED <<prog, dbUrl, schema, tbl>>

\* The database does not answer (connection refused or lost): pool.query
\* rejects and the table is as it was.  Time passes as for a statement.
PoolQueryFail(r) ==
    /\ proc = "run"
    /\ req[r].pc = "query"
    /\ req' = [req EXCEPT ![r] =
                 IF prog = "server" THEN Caught(req[r]) ELSE PartRejected(req[r])]
    /\ proc' \in AfterRejection(prog, req[r])
    /\ clock' = clock + 1
    /\ UNCHANGED <<prog, dbUrl, schema, tbl, books, idseq>>

\* ensureSchema(): create table if not exists books (...)
EnsureSchema ==
    /\ proc = "run"
    /\ schema = "pending"
    /\ schema' = "ok"
    /\ tbl' = TRUE
    /\ UNCHANGED <<prog, dbUrl, proc, books, idseq, clock, req>>

\* ensureSchema() rejects.  server.js: .catch(e => process.exit(1));
\* part_000: nothing catches it.
EnsureSchemaFail ==
    /\ proc = "run"
    /\ schema = "pending"
    /\ schema' = "failed"
    /\ proc' \in IF prog = "server" THEN {"exit"} ELSE {"run", "exit"}
    /\ UNCHANGED <<prog, dbUrl, tbl, books, idseq, clock, req>>

Next ==
    \/ \E r \in Slots, rq \in Requests : Arrive(r, rq)
    \/ \E r \in Slots : PoolQuery(r)
    \/ \E r \in Slots : PoolQueryFail(r)
    \/ EnsureSchema
    \/ EnsureSchemaFail

Spec == Init /\ [][Next]_vars

\* The process that runs server.js.
InitServer == Init /\ prog = "server"

SpecServer == InitServer /\ [][Next]_vars

----------------------------------------------------------------------------
(* The one-request system: one parsed request, of any shape, meets a table *)
(* the program has produced, and runs to its response.                     *)

\* The borrow statement of file p.
BorrowOf(p, bs, sq, id, borrower, now) ==
    IF p = "server" THEN SqlBorrow(bs, sq, id, borrower, now)
    ELSE PartSqlBorrow(bs, sq, id, borrower, now)

Created   == SqlInsert(<< >>, 0, Str(<<"D">>), Str(<< >>), Str(<< >>), Str(<< >>))
Lent(p)   == BorrowOf(p, Created.books, 1, 1, Str(<<"a">>), 1)
Back(p)   == SqlReturn(Lent(p).books, 1, 1, 2)
Again(p)  == BorrowOf(p, Back(p).books, 1, 1, Str(<<"b">>), 3)
Second(p) == SqlInsert(Lent(p).books, 1, Str(<<"d", "U">>), Str(<<"h">>),
                       Str(<<"_">>), Str(<< >>))
Gone(p)   == SqlDelete(Second(p).books, 2, 1)

\* Tables the program reaches by a create, a borrow, a return, a second
\* borrow, a second create and a delete, in that order.
Tables(p) ==
    {Outcome(TRUE, << >>, 0, << >>), Created, Lent(p), Back(p), Again(p),
     Second(p), Gone(p)}

InitOne ==
    /\ prog \in Progs
    /\ dbUrl = TRUE
    /\ proc = "run"
    /\ schema = "ok"
    /\ tbl = TRUE
    /\ \E t \in Tables(prog) : books = t.books /\ idseq = t.idseq
    /\ clock = MaxClock
    /\ \E rq \in AllRequests :
         /\ rq.op \in Routes(prog)
         /\ req = [s \in Slots |-> IF s = 1 THEN Received(rq) ELSE Idle]

NextOne ==
    \/ \E r \in Slots : Handle(r)
    \/ \E r \in Slots : PoolQuery(r)
    \/ \E r \in Slots : PoolQueryFail(r)

SpecOne == InitOne /\ [][NextOne]_vars

\* The one-request system of server.js.
InitOneServer == InitOne /\ prog = "server"

SpecOneServer == InitOneServer /\ [][NextOne]_vars

----------------------------------------------------------------------------
(* Properties. *)

Unknown == <<"u", "n", "k", "n", "o", "w", "n">>

ConflictBorrow == "not found or already borrowed"
ConflictReturn == "not found or not borrowed"

Mutating == {"create", "update", "delete", "borrow", "return"}

\* The admin key a request supplies: the first place, of header, body and
\* query, that holds one.
Supplied(rq) ==
    IF rq.hdr \notin {Undef, Str(<< >>)} THEN rq.hdr
    ELSE IF rq.bkey \notin {Undef, Str(<< >>)} THEN rq.bkey
    ELSE rq.qkey

\* A book's row, as every reader sees it: NULL read as empty.
BorrowerOf(row) == IF row.borrower = Null THEN << >> ELSE row.borrower.v
TitleOf(row)    == IF row.title = Null THEN << >> ELSE row.title.v

\* The name a borrow request gives: a text, or none.
IsName(b) == b.k \in {"undefined", "null", "string"}
NameOr(b, d) == IF b.k = "string" /\ b.v # << >> THEN b.v ELSE d

\* The store answered the borrow requests r1 and r2 for one book, both of
\* which arrived while the book was available, and the book has not been
\* returned or deleted since; no third connection has ever been open.
Raced(r1, r2) ==
    /\ r1 # r2
    /\ req[r1].gid = req[r2].gid
    /\ \A s \in Slots \ {r1, r2} : req[s].pc = "idle"
    /\ \A r \in {r1, r2} :
         /\ req[r].op = "borrow"
         /\ req[r].seen = "available"
         /\ req[r].intact
         /\ req[r].pc = "done"
         /\ req[r].status \in {200, 400}

\* C1: of two borrow requests for one id that both arrive while the book is
\* available, with no return or delete of it in between, exactly one gets
\* the book (200) and the other the 400 conflict; the stored borrower is the
\* winner's; never have both succeeded.
C1_OneBorrowWins ==
    \A r1, r2 \in Slots :
        Raced(r1, r2) =>
            /\ {req[r1].status, req[r2].status} = {200, 400}
            /\ \A w \in {r1, r2} :
                 req[w].status = 200 =>
                    LET b == books[req[w].gid]
                    IN  /\ b.is_borrowed = TRUE
                        /\ b.borrower = req[w].args.borrower
                        /\ IsName(req[w].rq.borrower) =>
                             BorrowerOf(b) = NameOr(req[w].rq.borrower, Unknown)
            /\ \A l \in {r1, r2} :
                 req[l].status = 400 => req[l].err = ConflictBorrow

C1_Witness ==
    \E r1, r2 \in Slots :
        /\ Raced(r1, r2)
        /\ req[r1].status = 200
        /\ req[r2].status = 400
        /\ req[r1].rq.borrower = Str(<<"a">>)
        /\ req[r2].rq.borrower = Undef

\* C2: in every state every book is borrowed exactly when its borrower, NULL
\* read as empty, is non-empty.
C2_BorrowedIffBorrower ==
    \A id \in DOMAIN books :
        (books[id].is_borrowed = TRUE) <=> (BorrowerOf(books[id]) # << >>)

\* C3: the statement of a borrow request for an available book makes the
\* book borrowed by the name given ("unknown" for none or an empty one) at
\* the current time, clears returned_at, changes nothing else, and the
\* request is answered 200 with that record.
C3_BorrowEffect ==
    [][\A r \in Slots :
        ( /\ PoolQuery(r)
          /\ req[r].op = "borrow"
          /\ IsName(req[r].rq.borrower)
          /\ StateOf(req[r].args.id) = "available" )
        => LET id  == req[r].args.id
               new == [books[id] EXCEPT
                         !.is_borrowed = TRUE,
                         !.borrower = Str(NameOr(req[r].rq.borrower, Unknown)),
                         !.borrowed_at = clock,
                         !.returned_at = NullTs]
           IN  /\ books' = [books EXCEPT ![id] = new]
               /\ req'[r].pc = "done"
               /\ req'[r].status = 200
               /\ Len(req'[r].out) = 1
               /\ req'[r].out[1].id = id
               /\ IF prog = "server"
                  THEN /\ req'[r].out[1].isBorrowed = TRUE
                       /\ req'[r].out[1].borrower = new.borrower.v
                       /\ req'[r].out[1].borrowedAt = <<clock>>
                       /\ req'[r].out[1].returnedAt = << >>
                  ELSE /\ req'[r].out[1].is_borrowed = TRUE
                       /\ req'[r].out[1].borrower = new.borrower
                       /\ req'[r].out[1].borrowed_at = clock
                       /\ req'[r].out[1].returned_at = NullTs
    ]_vars

\* C4: the statement of a borrow request for an id without a record, or with
\* a borrowed one, changes no row, and the request is answered 400 "not found
\* or already borrowed" either way; an authorized borrow is never answered
\* 401.
C4_BorrowConflict ==
    [][\A r \in Slots :
        /\ ( /\ PoolQuery(r)
             /\ req[r].op = "borrow"
             /\ tbl
             /\ req[r].args.id # NaN
             /\ StateOf(req[r].args.id) \in {"none", "borrowed"} )
           => /\ books' = books
              /\ idseq' = idseq
              /\ req'[r].pc = "done"
              /\ req'[r].status = 400
              /\ req'[r].err = ConflictBorrow
              /\ req'[r].out = << >>
        /\ ( /\ req'[r].op = "borrow"
             /\ req'[r].rq.hdr = Str(ADMIN_KEY) )
           => req'[r].status # 401
    ]_vars

C4_Witness ==
    /\ \E r \in Slots :
         /\ req[r].op = "borrow" /\ req[r].status = 400
         /\ req[r].seen = "borrowed" /\ req[r].err = ConflictBorrow
    /\ \E r \in Slots :
         /\ req[r].op = "borrow" /\ req[r].status = 400
         /\ req[r].seen = "none" /\ req[r].gid # NaN /\ tbl

\* C5: the statement of a return request for a borrowed book makes the book
\* available with an empty borrower and returned_at the current time,
\* changes nothing else (borrowed_at, title, author, category, description
\* and every other row stay), and the request is answered 200 with that
\* record.
C5_ReturnEffect ==
    [][\A r \in Slots :
        ( /\ PoolQuery(r)
          /\ req[r].op = "return"
          /\ StateOf(req[r].args.id) = "borrowed" )
        => LET id  == req[r].args.id
               new == [books[id] EXCEPT
                         !.is_borrowed = FALSE,
                         !.borrower = Str(<< >>),
                         !.returned_at = clock]
           IN  /\ books' = [books EXCEPT ![id] = new]
               /\ req'[r].pc = "done"
               /\ req'[r].status = 200
               /\ Len(req'[r].out) = 1
               /\ req'[r].out[1].id = id
               /\ IF prog = "server"
                  THEN /\ req'[r].out[1].isBorrowed = FALSE
                       /\ req'[r].out[1].title = TitleOf(new)
                       /\ req'[r].out[1].borrower = << >>
                       /\ req'[r].out[1].returnedAt = <<clock>>
                       /\ req'[r].out[1].borrowedAt = <<books[id].borrowed_at>>
                  ELSE /\ req'[r].out[1].is_borrowed = FALSE
                       /\ req'[r].out[1].title = new.title
                       /\ req'[r].out[1].borrower = Str(<< >>)
                       /\ req'[r].out[1].returned_at = clock
                       /\ req'[r].out[1].borrowed_at = books[id].borrowed_at
    ]_vars

C5_Witness ==
    \E r \in Slots :
        /\ req[r].op = "return" /\ req[r].status = 200
        /\ req[r].gid \in DOMAIN books
        /\ books[req[r].gid].is_borrowed = FALSE
        /\ books[req[r].gid].borrower = Str(<< >>)
        /\ books[req[r].gid].returned_at # NullTs
        /\ books[req[r].gid].borrowed_at # NullTs

\* C6: the statement of a return request for an id without a record, or with
\* an available one, changes no row (returned_at is not refreshed), and the
\* request is answered 400 "not found or not borrowed"; an authorized return
\* is never answered 401.
C6_ReturnConflict ==
    [][\A r \in Slots :
        /\ ( /\ PoolQuery(r)
             /\ req[r].op = "return"
             /\ tbl
             /\ req[r].args.id # NaN
             /\ StateOf(req[r].args.id) \in {"none", "available"} )
           => /\ books' = books
              /\ idseq' = idseq
              /\ req'[r].pc = "done"
              /\ req'[r].status = 400
              /\ req'[r].err = ConflictReturn
              /\ req'[r].out = << >>
        /\ ( /\ req'[r].op = "return"
             /\ req'[r].rq.hdr = Str(ADMIN_KEY) )
           => req'[r].status # 401
    ]_vars

C6_Witness ==
    \E r \in Slots :
        /\ req[r].op = "return" /\ req[r].status = 400
        /\ req[r].err = ConflictReturn
        /\ req[r].seen = "available"
        /\ req[r].gid \in DOMAIN books
        /\ books[req[r].gid].returned_at # NullTs
        /\ books[req[r].gid].returned_at < clock - 1

\* C7: in every state a borrowed book has returned_at unset.
C7_BorrowedHasNoReturnedAt ==
    \A id \in DOMAIN books :
        books[id].is_borrowed = TRUE => books[id].returned_at = NullTs

\* C8: a create, update, delete, borrow or return request whose supplied key
\* is not the secret, or that supplies none, is answered 401 "unauthorized"
\* by its handler, whatever else it carries, and the store stays as it is;
\* a list request needs no key: its statement is sent and it is answered 200.
C8_WrongKeyRejected ==
    [][\A r \in Slots :
        /\ ( /\ Handle(r)
             /\ req[r].op \in Mutating
             /\ Supplied(req[r].rq) # Str(ADMIN_KEY) )
           => /\ req'[r].pc = "done"
              /\ req'[r].status = 401
              /\ req'[r].err = "unauthorized"
              /\ req'[r].out = << >>
        /\ ( req[r].op \in Mutating /\ Supplied(req[r].rq) # Str(ADMIN_KEY) )
           => store' = store
        /\ ( Handle(r) /\ req[r].op = "list" ) => req'[r].pc = "query"
        /\ ( PoolQuery(r) /\ req[r].op = "list" ) => req'[r].status = 200
    ]_vars

C8_Witness ==
    \E r \in Slots :
        /\ prog = "server"
        /\ req[r].op = "create"
        /\ req[r].status = 401
        /\ req[r].rq.title = Undef
        /\ req[r].rq.hdr = Str(WrongKey)
        /\ req[r].rq.bkey = Str(ADMIN_KEY)
        /\ req[r].rq.qkey = Str(ADMIN_KEY)

\* C9: an authorized create request whose title is absent, null or empty is
\* answered 400 by its handler and the table never changes for it.
C9_EmptyTitleRejected ==
    [][\A r \in Slots :
        ( /\ req[r].op = "create"
          /\ req[r].rq.hdr = Str(ADMIN_KEY)
          /\ req[r].rq.title \in {Undef, Null, Str(<< >>)} )
        => /\ books' = books
           /\ Handle(r) => /\ req'[r].pc = "done"
                           /\ req'[r].status = 400
                           /\ req'[r].err = "title required"
    ]_vars

\* C10: in every state every book has a non-empty title.
C10_TitleNonEmpty ==
    \A id \in DOMAIN books : TitleOf(books[id]) # << >>

TextFields == {"title", "author", "category", "description"}

\* C11: the statement of an update request that is answered 200 leaves every
\* field of title, author, category and description that the body does not
\* carry as it was, sets every one the body carries as a text to that text,
\* leaves id, is_borrowed, borrower, borrowed_at and returned_at of the book,
\* every other book and the id sequence as they were, whatever else the body
\* carries, and the response is the updated record.
C11_UpdateFrame ==
    [][\A r \in Slots :
        ( /\ PoolQuery(r)
          /\ req[r].op = "update"
          /\ req'[r].status = 200 )
        => LET id == req[r].args.id
           IN  /\ id \in DOMAIN books
               /\ DOMAIN books' = DOMAIN books
               /\ idseq' = idseq
               /\ \A j \in DOMAIN books \ {id} : books'[j] = books[j]
               /\ books'[id].id = id
               /\ books[id].id = id
               /\ books'[id].is_borrowed = books[id].is_borrowed
               /\ books'[id].borrower = books[id].borrower
               /\ books'[id].borrowed_at = books[id].borrowed_at
               /\ books'[id].returned_at = books[id].returned_at
               /\ \A f \in TextFields :
                    /\ req[r].rq[f] = Undef => books'[id][f] = books[id][f]
                    /\ req[r].rq[f].k = "string" => books'[id][f] = req[r].rq[f]
               /\ req'[r].out = <<mapRow(books'[id])>>
    ]_vars

C11_Witness ==
    \E r \in Slots :
        /\ req[r].op = "update"
        /\ req[r].status = 200
        /\ req[r].rq.title = Undef
        /\ req[r].rq.author = Str(<<"h">>)
        /\ req[r].rq.borrower = Str(<<"a">>)
        /\ req[r].gid \in DOMAIN books
        /\ Cardinality(DOMAIN books) = 2
        /\ books[req[r].gid].title = Str(<<"D">>)
        /\ books[req[r].gid].author = Str(<<"h">>)
        /\ books[req[r].gid].is_borrowed = TRUE

\* C12: the statement of a delete request for a numeric id without a record
\* changes nothing in the store and the request is answered 404 "not found";
\* for an id with a record it removes that row, leaves every other row and
\* the id sequence as they were, and the request is answered 200; a delete
\* request with the key in the header is never answered 401.
C12_Delete ==
    [][\A r \in Slots :
        /\ ( /\ PoolQuery(r)
             /\ req[r].op = "delete"
             /\ tbl
             /\ req[r].args.id # NaN )
           => LET id == req[r].args.id
              IN  IF id \notin DOMAIN books
                  THEN /\ store' = store
                       /\ req'[r].pc = "done"
                       /\ req'[r].status = 404
                       /\ req'[r].err = "not found"
                  ELSE /\ DOMAIN books' = DOMAIN books \ {id}
                       /\ \A j \in DOMAIN books' : books'[j] = books[j]
                       /\ idseq' = idseq
                       /\ tbl' = tbl
                       /\ req'[r].pc = "done"
                       /\ req'[r].status = 200
        /\ ( /\ req'[r].op = "delete"
             /\ req'[r].rq.hdr = Str(ADMIN_KEY) )
           => req'[r].status # 401
    ]_vars

\* Two delete requests raced for one of two books: one removed it, the other
\* found no record, and the second book is still there.
C12_Witness ==
    \E r1, r2 \in Slots :
        /\ req[r1].op = "delete" /\ req[r1].status = 200
        /\ req[r2].op = "delete" /\ req[r2].status = 404
        /\ req[r1].gid = req[r2].gid
        /\ req[r1].gid \notin DOMAIN books
        /\ Cardinality(DOMAIN books) = 1
        /\ idseq = 2

\* C13: every row is stored under its own id, so the ids in the table are
\* pairwise distinct; the id sequence never goes back and every id in the
\* table has been handed out by it; the statement of a create request that
\* is answered 200 adds one row whose id is above every id handed out before
\* (also those of deleted rows), not borrowed and with no borrower, and
\* leaves the other rows; the statement of an update, borrow or return
\* request leaves the ids of the table as they were.
C13_UniqueIds ==
    [][/\ \A i \in DOMAIN books' : books'[i].id = i
       /\ idseq' >= idseq
       /\ DOMAIN books' \subseteq 1 .. idseq'
       /\ \A r \in Slots :
            /\ ( /\ PoolQuery(r)
                 /\ req[r].op = "create"
                 /\ req'[r].status = 200 )
               => LET new == req'[r].out[1].id
                  IN  /\ new > idseq
                      /\ new \notin DOMAIN books
                      /\ DOMAIN books' = DOMAIN books \cup {new}
                      /\ \A j \in DOMAIN books : books'[j] = books[j]
                      /\ books'[new].is_borrowed = FALSE
                      /\ BorrowerOf(books'[new]) = << >>
            /\ ( /\ PoolQuery(r)
                 /\ req[r].op \in {"update", "borrow", "return"} )
               => /\ DOMAIN books' = DOMAIN books
                  /\ idseq' = idseq
    ]_vars

\* server.js created book 1, deleted it and created book 2, one request
\* after the other.
C13_Witness ==
    /\ prog = "server"
    /\ req[1].op = "create"
    /\ req[1].status = 200
    /\ req[1].out[1].id = 2
    /\ \A s \in Slots \ {1} : req[s].pc = "idle"
    /\ DOMAIN books = {2}

\* s contains q as a literal substring, letters compared without case.
Contains(s, q) ==
    \E i \in 0 .. Len(s) - Len(q) :
        \A j \in 1 .. Len(q) : LowerChar(s[i + j]) = LowerChar(q[j])

ColumnContains(col, q) == col.k = "string" /\ Contains(col.v, q)

\* The ids a list request with query q is to return.
Matching(q) ==
    IF q = << >> THEN DOMAIN books
    ELSE {i \in DOMAIN books :
             \/ ColumnContains(books[i].title, q)
             \/ ColumnContains(books[i].author, q)
             \/ ColumnContains(books[i].category, q)}

\* C14: a list request that the store answers returns its books in strictly
\* ascending order of id; with no q, or a q of spaces only, they are all the
\* books, and with any other q exactly the books whose title, author or
\* category contains q, as the characters it is made of and without regard
\* to case.
C14_SearchLiteral ==
    [][\A r \in Slots :
        ( /\ PoolQuery(r)
          /\ req[r].op = "list"
          /\ req'[r].status = 200 )
        => LET q   == IF req[r].rq.q = Undef THEN << >> ELSE Trim(req[r].rq.q.v)
               out == req'[r].out
           IN  /\ \A i, j \in 1 .. Len(out) : i < j => out[i].id < out[j].id
               /\ {out[i].id : i \in 1 .. Len(out)} = Matching(q)
    ]_vars

\* C15: a request that awaits the store is, a step later, still awaiting it
\* in a running process or answered, never left without a response; and when
\* the store fails for it, by the statement or by the connection, it is
\* answered 500 with an error field.
C15_StoreFailureAnswered ==
    [][\A r \in Slots :
        req[r].pc = "query"
        => /\ req'[r].pc \in {"query", "done"}
           /\ req'[r].pc = "query" => proc' = "run"
           /\ ( \/ PoolQueryFail(r)
                \/ /\ PoolQuery(r)
                   /\ ~Statement(prog, req[r], tbl, books, idseq, clock).ok )
              => /\ req'[r].pc = "done"
                 /\ req'[r].status = 500
                 /\ req'[r].err # ""
    ]_vars

\* C16: a process without a connection string, or whose schema creation has
\* failed, has exited and has answered no request.
C16_NoServiceWithoutSchema ==
    (~dbUrl \/ schema = "failed")
    => /\ proc = "exit"
       /\ \A r \in Slots : req[r].pc # "done"

\* C17: the handler of a create, update, delete, borrow or return request
\* goes on to its statement (or to the check of the title) exactly when the
\* first of the header x-admin-key, the body's adminKey and the query's
\* adminKey that holds a key (an empty text counts as none) is the secret,
\* and answers 401 otherwise.
C17_KeyPrecedence ==
    [][\A r \in Slots :
        ( Handle(r) /\ req[r].op \in Mutating )
        => ( req'[r].status # 401 <=> Supplied(req[r].rq) = Str(ADMIN_KEY) )
    ]_vars

\* The store answered the return requests r1 and r2 for one book, both of
\* which arrived while the book was borrowed, and the book has not been
\* borrowed again or deleted since; no third connection has ever been open.
RacedReturn(r1, r2) ==
    /\ r1 # r2
    /\ req[r1].gid = req[r2].gid
    /\ \A s \in Slots \ {r1, r2} : req[s].pc = "idle"
    /\ \A r \in {r1, r2} :
         /\ req[r].op = "return"
         /\ req[r].seen = "borrowed"
         /\ req[r].intact
         /\ req[r].pc = "done"
         /\ req[r].status \in {200, 400}

\* The returned_at a successful return request was answered with.
ReturnedAtOf(c) ==
    IF prog = "server" THEN c.out[1].returnedAt ELSE <<c.out[1].returned_at>>

\* C18: of two return requests for one id that both arrive while the book is
\* borrowed, with no borrow or delete of it in between, exactly one is
\* answered 200 and the other 400 "not found or not borrowed"; the book is
\* available and its returned_at is the one the successful request wrote
\* and was answered with.
C18_OneReturnWins ==
    \A r1, r2 \in Slots :
        RacedReturn(r1, r2) =>
            /\ {req[r1].status, req[r2].status} = {200, 400}
            /\ \A w \in {r1, r2} :
                 req[w].status = 200 =>
                    LET b == books[req[w].gid]
                    IN  /\ b.is_borrowed = FALSE
                        /\ b.returned_at # NullTs
                        /\ <<b.returned_at>> = ReturnedAtOf(req[w])
            /\ \A l \in {r1, r2} :
                 req[l].status = 400 =>
                    /\ req[l].err = ConflictReturn
                    /\ req[l].out = << >>

C18_Witness ==
    \E r1, r2 \in Slots :
        /\ RacedReturn(r1, r2)
        /\ req[r1].status = 400
        /\ req[r2].status = 200
        /\ books[req[r2].gid].returned_at = 3

\* The statement of request r, of route op, ran for book id and the request
\* was answered 200.
Succeeds(r, op, id) ==
    /\ PoolQuery(r)
    /\ req[r].op = op
    /\ req[r].args.id = id
    /\ req'[r].status = 200

\* C19: a new book is not borrowed; is_borrowed of a book changes only in
\* the step of a borrow or return request for it that is answered 200; such
\* a borrow finds the book available and leaves it borrowed, such a return
\* finds it borrowed and leaves it available.  So the successful borrows and
\* returns of a book alternate in the order of their statements, a borrow
\* first.
C19_BorrowReturnAlternate ==
    [][/\ \A id \in DOMAIN books' :
            IF id \notin DOMAIN books
            THEN books'[id].is_borrowed = FALSE
            ELSE books'[id].is_borrowed # books[id].is_borrowed
                 => \E r \in Slots :
                       Succeeds(r, IF books[id].is_borrowed = TRUE
                                   THEN "return" ELSE "borrow", id)
       /\ \A r \in Slots, id \in 1 .. MaxId :
            /\ Succeeds(r, "borrow", id)
               => /\ id \in DOMAIN books
                  /\ books[id].is_borrowed = FALSE
                  /\ books'[id].is_borrowed = TRUE
            /\ Succeeds(r, "return", id)
               => /\ id \in DOMAIN books
                  /\ books[id].is_borrowed = TRUE
                  /\ books'[id].is_borrowed = FALSE
    ]_vars

\* A book was created, borrowed, returned and borrowed again, the return
\* and the second borrow in flight together.
C19_Witness ==
    \E r1, r2 \in Slots :
        /\ req[r1].op = "return" /\ req[r1].status = 200
        /\ req[r2].op = "borrow" /\ req[r2].status = 200
        /\ req[r1].gid = req[r2].gid
        /\ req[r1].gid \in DOMAIN books
        /\ books[req[r1].gid].is_borrowed = TRUE
        /\ books[req[r1].gid].borrowed_at = 4

\* The statement of request r ran for book id.
Runs(r, ops, id) ==
    /\ PoolQuery(r)
    /\ req[r].op \in ops
    /\ req[r].args.id = id

\* C20: the statement of a delete request for a book removes it and the
\* request is answered 200, be the book available or borrowed; an id the
\* sequence has handed out and the table no longer holds stays out of the
\* table: an update or delete request for it is answered 404, a borrow or
\* return request for it 400, a list request is answered without it and a
\* create request never with it.
C20_DeletionTerminal ==
    [][\A id \in 1 .. MaxId :
        /\ \A r \in Slots :
             ( Runs(r, {"delete"}, id) /\ id \in DOMAIN books )
             => /\ req'[r].status = 200
                /\ id \notin DOMAIN books'
        /\ ( id <= idseq /\ id \notin DOMAIN books )
           => /\ id \notin DOMAIN books'
              /\ \A r \in Slots :
                   /\ Runs(r, {"update", "delete"}, id)
                      => /\ req'[r].status = 404
                         /\ req'[r].err = "not found"
                   /\ Runs(r, {"borrow"}, id)
                      => /\ req'[r].status = 400
                         /\ req'[r].err = ConflictBorrow
                   /\ Runs(r, {"return"}, id)
                      => /\ req'[r].status = 400
                         /\ req'[r].err = ConflictReturn
                   /\ ( PoolQuery(r) /\ req[r].op \in {"list", "create"} )
                      => \A i \in 1 .. Len(req'[r].out) : req'[r].out[i].id # id
    ]_vars

\* A book was created, borrowed and deleted while borrowed, and the return
\* request that was in flight with the delete came after it.
C20_Witness ==
    \E r1, r2 \in Slots :
        /\ req[r1].op = "delete" /\ req[r1].status = 200
        /\ req[r1].seen = "borrowed"
        /\ req[r2].op = "return" /\ req[r2].status = 400
        /\ req[r1].gid = req[r2].gid
        /\ req[r1].gid \notin DOMAIN books
        /\ clock = 5

====
